---- MODULE Spec2Model ----
(***************************************************************************)
(* Model of the vscode-generator snippet library: SnippetBuilder,          *)
(* Snippet, SnippetsFile and the crate's Error type.                       *)
(*                                                                         *)
(* Strings are opaque values drawn from small sets; the empty string ""    *)
(* is always among them because the validation tests is_empty().           *)
(* Option<T> is a sequence of length at most one: None is <<>>, Some(v)    *)
(* is <<v>>.  A Vec<String> is a sequence of strings.                      *)
(***************************************************************************)
EXTENDS Integers, Sequences, FiniteSets, TLC

VARIABLES
    builder,    \* Option<SnippetBuilder>: the builder the caller holds, None once moved
    last,       \* history: the last value handed to each scalar setter (or the default)
    snippet,    \* Option<Snippet>: the Record most recently produced
    json,       \* Option<document>: the result of the last successful to_json()
    call,       \* the operation performed last, with its arguments
    ret,        \* what that operation returned
    snippets,   \* SnippetsFile.snippets: HashMap<String, Snippet>
    dirs,       \* filesystem: the directories that exist
    files       \* filesystem: path -> content of the regular files that exist

vars == <<builder, last, snippet, json, call, ret, snippets, dirs, files>>

-----------------------------------------------------------------------------
(* Bounds and value sets *)

MaxBody == 2        \* longest body (Vec<String>) explored
MaxBatch == 2       \* longest sequence handed to new() / add_snippets()

None == <<>>
Some(v) == <<v>>

\* gen_name(): format!("snippet_{}_{}", timestamp, random_suffix), the suffix
\* being six times (b'a' + fastrand::u8(0..26)) as char.  The clock gives the
\* timestamp and the random source the six draws.
Alphabet ==
    <<"a", "b", "c", "d", "e", "f", "g", "h", "i", "j", "k", "l", "m",
      "n", "o", "p", "q", "r", "s", "t", "u", "v", "w", "x", "y", "z">>
RECURSIVE Concat(_)
Concat(s) == IF s = <<>> THEN "" ELSE Head(s) \o Concat(Tail(s))
SuffixLen == 6
random_suffix(draws) == Concat([i \in 1..SuffixLen |-> Alphabet[draws[i] + 1]])

gen_name_short_suffix(timestamp, draws) ==
    "snippet_" \o ToString(timestamp) \o "_"
        \o Concat([i \in 1..(SuffixLen - 1) |-> Alphabet[draws[i] + 1]])

gen_name_without_suffix(timestamp, draws) == "snippet_" \o ToString(timestamp)

gen_name(timestamp, draws) ==
    "snippet_" \o ToString(timestamp) \o "_" \o random_suffix(draws)

Timestamps == {7}                   \* milliseconds since the epoch
RandomDraws == {<<0, 0, 0, 0, 0, 0>>, <<25, 1, 2, 3, 4, 5>>}
GenNames == {gen_name(t, d) : t \in Timestamps, d \in RandomDraws}

Names == {""} \cup GenNames         \* snippet names (keys)
Prefixes == {"", "p1", "p2"}        \* trigger texts
Lines == {"a", "b"}                 \* body lines
Descriptions == {"d1", "d2"}
Scopes == {"rust"}
Priorities == {0, 1}                \* u32 values

SeqsUpTo(S, n) == UNION {[1..k -> S] : k \in 0..n}
Bodies == SeqsUpTo(Lines, MaxBody)
Indexes == 0..MaxBody               \* usize arguments of set_line / map_line

-----------------------------------------------------------------------------
(* error.rs: Result<T> and Error *)

NoRet == [kind |-> "None", err |-> "", n |-> 0]
Ok == [kind |-> "Ok", err |-> "", n |-> 0]
Err(e) == [kind |-> "Err", err |-> e, n |-> 0]
IndexOutOfBounds(n) == [kind |-> "Err", err |-> "IndexOutOfBounds", n |-> n]
Panic(e) == [kind |-> "Panic", err |-> e, n |-> 0]

\* From<std::io::Error> and From<serde_json::Error>
FromIoError == Err("Io")
FromJsonError == Err("Json")

\* The record of the last call: the operation, and the index and line handed
\* to set_line / map_line
NoCall == [op |-> "init", n |-> 0, line |-> ""]
Call(op) == [op |-> op, n |-> 0, line |-> ""]
CallLine(op, n, line) == [op |-> op, n |-> n, line |-> line]
\* ... and the lines handed to set_body / add_line / add_lines
CallLines(op, lines) == [op |-> op, n |-> 0, line |-> "", lines |-> lines]

-----------------------------------------------------------------------------
(* snippet_builder.rs: SnippetBuilder *)

DefaultBuilder(name) ==
    [name |-> name, prefix |-> "", body |-> <<>>, description |-> None,
     scope |-> None, is_file_template |-> None, priority |-> None]

validate_prefix_first(b) ==
    IF b.prefix = "" THEN Err("PrefixIsRequired")
    ELSE IF b.name = "" THEN Err("NameIsRequired")
    ELSE IF b.body = <<>> THEN Err("BodyIsEmpty")
    ELSE Ok

validate(b) ==
    IF b.name = "" THEN Err("NameIsRequired")
    ELSE IF b.prefix = "" THEN Err("PrefixIsRequired")
    ELSE IF b.body = <<>> THEN Err("BodyIsEmpty")
    ELSE Ok

SnippetOf_swapped(b) ==
    [name |-> b.name, prefix |-> b.prefix, body |-> b.body,
     description |-> b.scope, scope |-> b.description,
     is_file_template |-> b.is_file_template, priority |-> b.priority]

\* The Snippet struct literal of build()
SnippetOf(b) ==
    [name |-> b.name, prefix |-> b.prefix, body |-> b.body,
     description |-> b.description, scope |-> b.scope,
     is_file_template |-> b.is_file_template, priority |-> b.priority]

\* build(self) -> Result<Snippet>: the result and, on success, the Snippet
build(b) ==
    IF validate(b).kind = "Ok"
    THEN [ret |-> Ok, snippet |-> Some(SnippetOf(b))]
    ELSE [ret |-> validate(b), snippet |-> None]

set_name(b, name) == [b EXCEPT !.name = name]
set_prefix_rejecting_empty(b, prefix) ==
    IF prefix = "" THEN b ELSE [b EXCEPT !.prefix = prefix]
set_prefix(b, prefix) == [b EXCEPT !.prefix = prefix]
set_body(b, body) == [b EXCEPT !.body = body]
add_line_dropping_description(b, line) ==
    [b EXCEPT !.body = Append(@, line), !.description = None]
add_line(b, line) == [b EXCEPT !.body = Append(@, line)]
add_lines_prepend(b, lines) == [b EXCEPT !.body = lines \o @]
add_lines(b, lines) == [b EXCEPT !.body = @ \o lines]
set_description(b, d) == [b EXCEPT !.description = Some(d)]
set_scope(b, s) == [b EXCEPT !.scope = Some(s)]
set_is_file_template(b, t) == [b EXCEPT !.is_file_template = Some(t)]
set_priority(b, p) == [b EXCEPT !.priority = Some(p)]

set_line_off_by_one(b, n, line) ==
    IF n > Len(b.body)
    THEN [ret |-> IndexOutOfBounds(n), builder |-> None]
    ELSE [ret |-> Ok, builder |-> Some([b EXCEPT !.body[n + 1] = line])]

\* set_line(self, n, line) -> Result<Self>; Vec indexes from 0, sequences from 1
set_line(b, n, line) ==
    IF n >= Len(b.body)
    THEN [ret |-> IndexOutOfBounds(n), builder |-> None]
    ELSE [ret |-> Ok, builder |-> Some([b EXCEPT !.body[n + 1] = line])]

\* map_line(self, n, f) -> Result<Self>; f rewrites one String in place
LineFns == [Lines -> Lines]
map_line(b, n, f) ==
    IF n >= Len(b.body)
    THEN [ret |-> IndexOutOfBounds(n), builder |-> None]
    ELSE [ret |-> Ok, builder |-> Some([b EXCEPT !.body[n + 1] = f[@]])]

\* map_body(self, f): f is any closure over &mut Vec<String>; these are the
\* transformations explored.
BodyFns == {"clear", "reverse", "pop", "insert_a", "push_b"}
Reverse(s) == [i \in 1..Len(s) |-> s[Len(s) + 1 - i]]
ApplyBodyFn(f, body) ==
    CASE f = "clear" -> <<>>
      [] f = "reverse" -> Reverse(body)
      [] f = "pop" -> IF body = <<>> THEN <<>> ELSE SubSeq(body, 1, Len(body) - 1)
      [] f = "insert_a" -> <<"a">> \o body
      [] f = "push_b" -> Append(body, "b")
map_body(b, f) == [b EXCEPT !.body = ApplyBodyFn(f, @)]

NoLast ==
    [name |-> "", prefix |-> "", description |-> None, scope |-> None,
     is_file_template |-> None, priority |-> None]

-----------------------------------------------------------------------------
(* snippet.rs: Snippet, its serde::Serialize derive, Snippet::new, to_json *)

EmptyObject == [x \in {} |-> None]
Prop(name, v) == [x \in {name} |-> v]
OptProp_always(name, o) == Prop(name, o)

\* #[serde(skip_serializing_if = "Option::is_none")]
OptProp(name, o) == IF o = None THEN EmptyObject ELSE Prop(name, o[1])

\* #[derive(Serialize)] on Snippet: one property per serialized field, named by
\* the field's identifier; `name` carries #[serde(skip_serializing)].
SerializeSnippet(s) ==
    Prop("prefix", s.prefix) @@ Prop("body", s.body)
        @@ OptProp("description", s.description)
        @@ OptProp("scope", s.scope)
        @@ OptProp("is_file_template", s.is_file_template)
        @@ OptProp("priority", s.priority)

\* serde_json::to_string_pretty(..).map_err(Error::from): the encoder returns a
\* Result; encOk is its outcome.
to_string_pretty(doc, encOk) ==
    IF encOk THEN [ret |-> Ok, json |-> Some(doc)]
    ELSE [ret |-> FromJsonError, json |-> None]

unwrap_propagating(r) == r

\* Result::unwrap(): the value of Ok, a panic carrying the error of Err
unwrap(r) == IF r.ret.kind = "Ok" THEN r ELSE [r EXCEPT !.ret = Panic(r.ret.err)]

\* Snippet::new(prefix, body) with the name gen_name() drew
Snippet_new(name, prefix, body) ==
    unwrap(build(set_body(set_prefix(DefaultBuilder(name), prefix), body)))

from_builder_unchecked(b) == [ret |-> Ok, snippet |-> Some(SnippetOf(b))]

\* impl From<SnippetBuilder> for Snippet
from_builder(b) == unwrap(build(b))

-----------------------------------------------------------------------------
(* The caller of the builder API: one builder at a time, built into one     *)
(* Snippet, which is serialized; a new builder starts the next round.       *)

Running == ret.kind # "Panic"      \* a panic ends the program
Held == Running /\ builder # None  \* a moved builder cannot be used again
B == builder[1]

FileUnchanged == UNCHANGED <<snippets, dirs, files>>

\* SnippetBuilder::new() / Snippet::builder() / Default::default()
New ==
    /\ Running
    /\ \E name \in GenNames :
          /\ builder' = Some(DefaultBuilder(name))
          /\ last' = [NoLast EXCEPT !.name = name]
    /\ snippet' = None /\ json' = None
    /\ call' = Call("new") /\ ret' = NoRet
    /\ FileUnchanged

Validate ==
    /\ Held
    /\ call' = Call("validate") /\ ret' = validate(B)
    /\ UNCHANGED <<builder, last, snippet, json>>
    /\ FileUnchanged

Build ==
    /\ Held
    /\ call' = Call("build")
    /\ ret' = build(B).ret
    /\ snippet' = build(B).snippet
    /\ builder' = None
    /\ UNCHANGED <<last, json>>
    /\ FileUnchanged

\* A setter that returns Self
ChainCall(c, b, l) ==
    /\ builder' = Some(b) /\ last' = l
    /\ call' = c /\ ret' = NoRet
    /\ UNCHANGED <<snippet, json>>
    /\ FileUnchanged
Chain(op, b, l) == ChainCall(Call(op), b, l)

SetName == Held /\ \E v \in Names :
    Chain("set_name", set_name(B, v), [last EXCEPT !.name = v])
SetPrefix == Held /\ \E v \in Prefixes :
    Chain("set_prefix", set_prefix(B, v), [last EXCEPT !.prefix = v])
SetDescription == Held /\ \E v \in Descriptions :
    Chain("set_description", set_description(B, v), [last EXCEPT !.description = Some(v)])
SetScope == Held /\ \E v \in Scopes :
    Chain("set_scope", set_scope(B, v), [last EXCEPT !.scope = Some(v)])
SetIsFileTemplate == Held /\ \E v \in BOOLEAN :
    Chain("set_is_file_template", set_is_file_template(B, v),
          [last EXCEPT !.is_file_template = Some(v)])
SetPriority == Held /\ \E v \in Priorities :
    Chain("set_priority", set_priority(B, v), [last EXCEPT !.priority = Some(v)])

SetBody == Held /\ \E v \in Bodies :
    ChainCall(CallLines("set_body", v), set_body(B, v), last)
AddLine == Held /\ Len(B.body) < MaxBody /\ \E v \in Lines :
    ChainCall(CallLines("add_line", <<v>>), add_line(B, v), last)
AddLines == Held /\ \E v \in Bodies :
    /\ Len(B.body) + Len(v) <= MaxBody
    /\ ChainCall(CallLines("add_lines", v), add_lines(B, v), last)
MapBody == Held /\ \E f \in BodyFns :
    /\ Len(ApplyBodyFn(f, B.body)) <= MaxBody
    /\ Chain("map_body", map_body(B, f), last)

\* A setter that returns Result<Self>
Try(c, r) ==
    /\ builder' = r.builder /\ ret' = r.ret /\ call' = c
    /\ UNCHANGED <<last, snippet, json>>
    /\ FileUnchanged

SetLine == Held /\ \E n \in Indexes, v \in Lines :
    Try(CallLine("set_line", n, v), set_line(B, n, v))
MapLine == Held /\ \E n \in Indexes, f \in LineFns :
    Try(CallLine("map_line", n, ""), map_line(B, n, f))

\* Snippet::new(prefix, body)
SnippetNew ==
    /\ Running /\ builder = None
    /\ \E name \in GenNames, prefix \in Prefixes, body \in Bodies :
          /\ snippet' = Snippet_new(name, prefix, body).snippet
          /\ ret' = Snippet_new(name, prefix, body).ret
    /\ builder' = None /\ json' = None /\ last' = NoLast
    /\ call' = Call("Snippet::new")
    /\ FileUnchanged

\* Snippet::to_json(&self)
SnippetToJson ==
    /\ Running /\ snippet # None
    /\ \E encOk \in BOOLEAN :
          /\ json' = to_string_pretty(SerializeSnippet(snippet[1]), encOk).json
          /\ ret' = to_string_pretty(SerializeSnippet(snippet[1]), encOk).ret
    /\ call' = Call("Snippet::to_json")
    /\ UNCHANGED <<builder, last, snippet>>
    /\ FileUnchanged

InitBuilder ==
    /\ builder = None /\ last = NoLast /\ snippet = None /\ json = None
    /\ call = NoCall /\ ret = NoRet
    /\ snippets = EmptyObject /\ dirs = {<<>>} /\ files = EmptyObject

NextBuilder ==
    \/ New \/ Validate \/ Build
    \/ SetName \/ SetPrefix \/ SetDescription \/ SetScope
    \/ SetIsFileTemplate \/ SetPriority
    \/ SetBody \/ AddLine \/ AddLines \/ MapBody
    \/ SetLine \/ MapLine
    \/ SnippetNew \/ SnippetToJson

SpecBuilder == InitBuilder /\ [][NextBuilder]_vars

-----------------------------------------------------------------------------
(* snippets_file.rs: SnippetsFile *)

\* What new(), add_snippet() and add_snippets() are handed: values that are
\* Into<Snippet>, either a SnippetBuilder or a Snippet built earlier.
FileBuilders ==
    [name : Names, prefix : {"", "p1"}, body : {<<>>, <<"a">>},
     description : {None}, scope : {None}, is_file_template : {None},
     priority : {None}]
FileSnippets ==
    LET valid == {x \in FileBuilders : validate(x) = Ok}
        described == valid \cup {set_description(b, "d1") : b \in valid}
        flagged == described \cup {set_is_file_template(b, TRUE) : b \in described}
    IN  {build(b).snippet[1] : b \in flagged}
Inputs ==
    {[tag |-> "builder", v |-> b] : b \in FileBuilders}
        \cup {[tag |-> "snippet", v |-> s] : s \in FileSnippets}
Batches == SeqsUpTo(Inputs, MaxBatch)

\* snip.into(): From<SnippetBuilder> for a builder, the identity for a Snippet
into(x) ==
    IF x.tag = "builder" THEN from_builder(x.v)
    ELSE [ret |-> Ok, snippet |-> Some(x.v)]

insert_replacing_all(map, snip) == Prop(snip.name, snip)

insert_under_prefix(map, snip) ==
    [k \in DOMAIN map \cup {snip.prefix} |-> IF k = snip.prefix THEN snip ELSE map[k]]

insert_if_vacant(map, snip) ==
    [k \in DOMAIN map \cup {snip.name} |-> IF k \in DOMAIN map THEN map[k] ELSE snip]

\* HashMap::insert(snip.name.clone(), snip)
insert(map, snip) ==
    [k \in DOMAIN map \cup {snip.name} |-> IF k = snip.name THEN snip ELSE map[k]]

\* The iterator .map(|snip| { let snip = snip.into(); (snip.name.clone(), snip) })
\* consumed by collect() or HashMap::extend(): the elements are converted and
\* inserted one after the other, and a panicking conversion ends the iteration.
RECURSIVE extend_first_wins(_, _)
extend_first_wins(map, batch) ==
    IF batch = <<>> THEN [ret |-> NoRet, snippets |-> map]
    ELSE LET c == into(Head(batch))
         IN  IF c.ret.kind # "Ok" THEN [ret |-> c.ret, snippets |-> map]
             ELSE extend_first_wins(insert_if_vacant(map, c.snippet[1]), Tail(batch))

RECURSIVE extend_all_or_nothing(_, _)
extend_all_or_nothing(map, batch) ==
    IF batch = <<>> THEN [ret |-> NoRet, snippets |-> map]
    ELSE LET c == into(Head(batch))
         IN  IF c.ret.kind # "Ok" THEN [ret |-> c.ret, snippets |-> map]
             ELSE LET r == extend_all_or_nothing(insert(map, c.snippet[1]), Tail(batch))
                  IN  IF r.ret.kind # "None" THEN [ret |-> r.ret, snippets |-> map]
                      ELSE r

RECURSIVE extend(_, _)
extend(map, batch) ==
    IF batch = <<>> THEN [ret |-> NoRet, snippets |-> map]
    ELSE LET c == into(Head(batch))
         IN  IF c.ret.kind # "Ok" THEN [ret |-> c.ret, snippets |-> map]
             ELSE extend(insert(map, c.snippet[1]), Tail(batch))

\* SnippetsFile::new(snippets): the map is collected before Self exists, so a
\* panic leaves no SnippetsFile behind.
SnippetsFile_new(batch) == extend(EmptyObject, batch)

\* SnippetsFile::add_snippet(&mut self, snippet)
add_snippet(map, x) ==
    LET c == into(x)
    IN  IF c.ret.kind # "Ok"
        THEN [ret |-> c.ret, snippets |-> map, snippet |-> None]
        ELSE [ret |-> NoRet, snippets |-> insert(map, c.snippet[1]),
              snippet |-> c.snippet]

\* SnippetsFile::add_snippets(&mut self, snippets)
add_snippets(map, batch) == extend(map, batch)

\* serde's Serialize for HashMap<String, Snippet>: one property per entry
SerializeMap(map) == [k \in DOMAIN map |-> SerializeSnippet(map[k])]

to_json_of_self(map, encOk) ==
    to_string_pretty(Prop("snippets", SerializeMap(map)), encOk)

\* SnippetsFile::to_json(&self)
to_json(map, encOk) == to_string_pretty(SerializeMap(map), encOk)

BuilderUnchanged == UNCHANGED <<builder, last>>
FsUnchanged == UNCHANGED <<dirs, files>>

\* The argument is a SnippetBuilder that validate() rejects
Invalid(x) == x.tag = "builder" /\ validate(x.v) # Ok

\* The call record of add_snippet carries the keys the map held before and
\* whether the argument was an invalid builder
CallAdd(x) ==
    [op |-> "add_snippet", n |-> 0, line |-> "", keys |-> DOMAIN snippets,
     invalid |-> Invalid(x)]

\* add_snippet called on each element of the batch in order, up to a panic
RECURSIVE add_each_snippet(_, _)
add_each_snippet(map, batch) ==
    IF batch = <<>> THEN [ret |-> NoRet, snippets |-> map]
    ELSE LET r == add_snippet(map, Head(batch))
         IN  IF r.ret.kind = "Panic" THEN [ret |-> r.ret, snippets |-> r.snippets]
             ELSE add_each_snippet(r.snippets, Tail(batch))

\* What build() returns for a builder of the batch, or the Snippet itself
BuiltFrom(x) == IF x.tag = "builder" THEN build(x.v).snippet ELSE Some(x.v)

\* For each name of the batch, the last element that carries it
Latest(batch) ==
    [k \in {batch[i].v.name : i \in 1..Len(batch)} |->
        BuiltFrom(batch[CHOOSE i \in 1..Len(batch) :
                            /\ batch[i].v.name = k
                            /\ \A j \in (i + 1)..Len(batch) : batch[j].v.name # k])]

\* The position of the first invalid builder of the batch, 0 without one
FirstInvalid(batch) ==
    IF \E i \in 1..Len(batch) : Invalid(batch[i])
    THEN CHOOSE i \in 1..Len(batch) :
            Invalid(batch[i]) /\ \A j \in 1..(i - 1) : ~Invalid(batch[j])
    ELSE 0

\* Of a batch holding an invalid builder: its position k, its validation
\* error, the last element of each name among the elements before k, and the
\* keys the map held when the call began
Aborted(map, batch) ==
    LET k == FirstInvalid(batch)
    IN  IF k = 0 THEN None
        ELSE Some([k |-> k, err |-> validate(batch[k].v).err,
                   head |-> Latest(SubSeq(batch, 1, k - 1)),
                   keys |-> DOMAIN map])

\* The call record of new and add_snippets tells how many elements the batch
\* held, which names they carried, whether one was an invalid builder, the
\* last element of each name, what add_snippet gives element by element, and
\* where the batch aborts
CallBatch(op, map, batch) ==
    [op |-> op, n |-> Len(batch), line |-> "",
     names |-> {batch[i].v.name : i \in 1..Len(batch)},
     invalid |-> \E i \in 1..Len(batch) : Invalid(batch[i]),
     latest |-> Latest(batch),
     aborted |-> Aborted(map, batch),
     folded |-> add_each_snippet(map, batch)]

FileNew ==
    /\ Running
    /\ \E batch \in Batches :
          LET r == SnippetsFile_new(batch)
          IN  /\ ret' = r.ret
              /\ snippets' = IF r.ret.kind = "Panic" THEN snippets ELSE r.snippets
              /\ call' = CallBatch("SnippetsFile::new", EmptyObject, batch)
    /\ snippet' = None /\ json' = None
    /\ BuilderUnchanged /\ FsUnchanged

AddSnippet ==
    /\ Running
    /\ \E x \in Inputs :
          LET r == add_snippet(snippets, x)
          IN  /\ ret' = r.ret /\ snippets' = r.snippets /\ snippet' = r.snippet
              /\ call' = CallAdd(x)
    /\ json' = None
    /\ BuilderUnchanged /\ FsUnchanged

AddSnippets ==
    /\ Running
    /\ \E batch \in Batches :
          LET r == add_snippets(snippets, batch)
          IN  /\ ret' = r.ret /\ snippets' = r.snippets
              /\ call' = CallBatch("add_snippets", snippets, batch)
    /\ snippet' = None /\ json' = None
    /\ BuilderUnchanged /\ FsUnchanged

ToJson ==
    /\ Running
    /\ \E encOk \in BOOLEAN :
          /\ ret' = to_json(snippets, encOk).ret
          /\ json' = to_json(snippets, encOk).json
    /\ call' = Call("to_json")
    /\ snippet' = None
    /\ UNCHANGED snippets
    /\ BuilderUnchanged /\ FsUnchanged

InitFile == InitBuilder

NextFile == FileNew \/ AddSnippet \/ AddSnippets \/ ToJson

SpecFile == InitFile /\ [][NextFile]_vars

-----------------------------------------------------------------------------
(* std::fs and std::path as write_to() uses them.  A path is the sequence   *)
(* of its components; <<>> is the empty path (and the current directory).   *)

Paths == {<<"d", "e", "f">>, <<"d">>, <<>>}

\* Path::parent(): None for the empty path, else the path without its last
\* component (the empty path for a bare file name)
parent(path) ==
    IF path = <<>> THEN None ELSE Some(SubSeq(path, 1, Len(path) - 1))

Prefix(p, k) == SubSeq(p, 1, k)
Min(S) == CHOOSE x \in S : \A y \in S : x <= y

\* fs::create_dir_all(dir): every missing ancestor, then dir itself.  It fails
\* at the first component that exists as a regular file, or that the system
\* refuses to create (failAt names that component, 0 for none); the
\* directories before it stay created.
create_dir_all(ds, fs, dir, failAt) ==
    LET bad == {k \in 1..Len(dir) :
                    \/ Prefix(dir, k) \in DOMAIN fs
                    \/ k = failAt /\ Prefix(dir, k) \notin ds}
        stop == IF bad = {} THEN Len(dir) + 1 ELSE Min(bad)
    IN  [ret |-> IF bad = {} THEN Ok ELSE FromIoError,
         dirs |-> ds \cup {Prefix(dir, k) : k \in 1..(stop - 1)}]

\* fs::write(path, contents): create or truncate, then write everything.
\* It fails without touching anything when the path is empty, names a
\* directory, has no parent directory, or the system refuses to open it
\* (disk = "open"); when the system fails the write itself (disk = "write")
\* the file is left created or truncated, without the contents.
DiskOutcomes == {"ok", "open", "write"}
fs_write(ds, fs, path, contents, disk) ==
    IF \/ path = <<>> \/ path \in ds \/ parent(path)[1] \notin ds
       \/ disk = "open"
    THEN [ret |-> FromIoError, files |-> fs]
    ELSE IF disk = "write"
    THEN [ret |-> FromIoError,
          files |-> [p \in DOMAIN fs \cup {path} |-> IF p = path THEN None ELSE fs[p]]]
    ELSE [ret |-> Ok,
          files |-> [p \in DOMAIN fs \cup {path} |->
                        IF p = path THEN Some(contents) ELSE fs[p]]]

write_to_json_first(map, ds, fs, path, failAt, encOk, disk) ==
    LET j == to_json(map, encOk)
        made == IF parent(path) = None THEN [ret |-> Ok, dirs |-> ds]
                ELSE create_dir_all(ds, fs, parent(path)[1], failAt)
    IN  IF j.ret # Ok THEN [ret |-> j.ret, dirs |-> ds, files |-> fs]
        ELSE IF made.ret # Ok THEN [ret |-> made.ret, dirs |-> made.dirs, files |-> fs]
        ELSE LET w == fs_write(made.dirs, fs, path, j.json[1], disk)
             IN  [ret |-> w.ret, dirs |-> made.dirs, files |-> w.files]

write_to_stale_file(map, ds, fs, path, failAt, encOk, disk) ==
    LET made == IF parent(path) = None THEN [ret |-> Ok, dirs |-> ds]
                ELSE create_dir_all(ds, fs, parent(path)[1], failAt)
        j == to_json(map, encOk)
    IN  IF made.ret # Ok THEN [ret |-> made.ret, dirs |-> made.dirs, files |-> fs]
        ELSE IF j.ret # Ok THEN [ret |-> j.ret, dirs |-> made.dirs, files |-> fs]
        ELSE IF path \in DOMAIN fs THEN [ret |-> Ok, dirs |-> made.dirs, files |-> fs]
        ELSE LET w == fs_write(made.dirs, fs, path, j.json[1], disk)
             IN  [ret |-> w.ret, dirs |-> made.dirs, files |-> w.files]

\* SnippetsFile::write_to(&self, path): each `?` returns the stage's error
write_to(map, ds, fs, path, failAt, encOk, disk) ==
    LET made == IF parent(path) = None THEN [ret |-> Ok, dirs |-> ds]
                ELSE create_dir_all(ds, fs, parent(path)[1], failAt)
        j == to_json(map, encOk)
    IN  IF made.ret # Ok THEN [ret |-> made.ret, dirs |-> made.dirs, files |-> fs]
        ELSE IF j.ret # Ok THEN [ret |-> j.ret, dirs |-> made.dirs, files |-> fs]
        ELSE LET w == fs_write(made.dirs, fs, path, j.json[1], disk)
             IN  [ret |-> w.ret, dirs |-> made.dirs, files |-> w.files]

\* The call record of write_to carries the path and what the call found on
\* disk: whether the parent directory was missing, whether the file existed.
CallWrite(path) ==
    [op |-> "write_to", n |-> 0, line |-> "", path |-> path,
     mkdir |-> parent(path) # None /\ parent(path)[1] \notin dirs,
     existed |-> path \in DOMAIN files]

WriteTo_draining ==
    /\ Running
    /\ \E path \in Paths : \E failAt \in 0..Len(path), encOk \in BOOLEAN, disk \in DiskOutcomes :
          LET r == write_to(snippets, dirs, files, path, failAt, encOk, disk)
          IN  /\ ret' = r.ret /\ dirs' = r.dirs /\ files' = r.files
              /\ call' = CallWrite(path)
    /\ snippets' = EmptyObject
    /\ UNCHANGED <<snippet, json>>
    /\ BuilderUnchanged

\* SnippetsFile::write_to(&self, path): &self, so the map is only read
WriteTo ==
    /\ Running
    /\ \E path \in Paths : \E failAt \in 0..Len(path), encOk \in BOOLEAN, disk \in DiskOutcomes :
          LET r == write_to(snippets, dirs, files, path, failAt, encOk, disk)
          IN  /\ ret' = r.ret /\ dirs' = r.dirs /\ files' = r.files
              /\ call' = CallWrite(path)
    /\ UNCHANGED <<snippets, snippet, json>>
    /\ BuilderUnchanged

InitWrite == InitBuilder

NextWrite == AddSnippet \/ ToJson \/ WriteTo

SpecWrite == InitWrite /\ [][NextWrite]_vars

-----------------------------------------------------------------------------
(* snippet.rs: the snippet templates, built with the feature "rust" enabled *)

Texts == {"t1"}
CommentNames == {"TODO"}
CommentTypes == {None, Some("#")}            \* Option<&str>
FnNames == {"main"}
MacroNames == {"println"}
CustomBraces == {None, Some(<<"[", "]">>)}   \* Option<(&str, &str)>
AttrNames == {"derive"}
AttrArgs == {<<>>, <<"Debug">>, <<"Debug", "Clone">>}

\* [&str]::join(sep)
RECURSIVE join(_, _)
join(s, sep) ==
    IF s = <<>> THEN ""
    ELSE IF Len(s) = 1 THEN s[1]
    ELSE s[1] \o sep \o join(Tail(s), sep)

\* Option::unwrap_or(default)
unwrap_or(o, default) == IF o = None THEN default ELSE o[1]

\* Snippet::text(prefix, text), on the builder Snippet::builder() returns
text(name, prefix, t) ==
    set_body(set_prefix(DefaultBuilder(name), prefix), <<t>>)

\* Snippet::todo_comment(prefix, comment_name, comment_type)
todo_comment(name, prefix, comment_name, comment_type) ==
    set_body(set_prefix(DefaultBuilder(name), prefix),
             <<unwrap_or(comment_type, "//") \o " " \o comment_name \o ": ${1:...}">>)

\* Snippet::fn_alias(prefix, fn_name)
fn_alias(name, prefix, fn_name) ==
    set_body(set_prefix(DefaultBuilder(name), prefix), <<fn_name \o "()">>)

\* Snippet::rust_text(prefix, text)
rust_text(name, prefix, t) == set_scope(text(name, prefix, t), "rust")

\* Snippet::rust_todo_comment(prefix, comment_name, comment_type)
rust_todo_comment(name, prefix, comment_name, comment_type) ==
    set_scope(todo_comment(name, prefix, comment_name, comment_type), "rust")

rust_fn_alias_unscoped(name, prefix, fn_name) == fn_alias(name, prefix, fn_name)

\* Snippet::rust_fn_alias(prefix, fn_name)
rust_fn_alias(name, prefix, fn_name) ==
    set_scope(fn_alias(name, prefix, fn_name), "rust")

\* Snippet::rust_macro_alias(prefix, macro_name, custom_braces)
rust_macro_alias(name, prefix, macro_name, custom_braces) ==
    LET braces == unwrap_or(custom_braces, <<"(", ")">>)
    IN  set_scope(
            set_body(set_prefix(DefaultBuilder(name), prefix),
                     <<macro_name \o "!" \o braces[1] \o "\"${1:args}\"" \o braces[2]>>),
            "rust")

\* Snippet::rust_attr(prefix, attr_name, attr_args)
rust_attr(name, prefix, attr_name, attr_args) ==
    set_scope(
        set_body(set_prefix(DefaultBuilder(name), prefix),
                 <<"#[" \o attr_name \o "(${1:" \o join(attr_args, "|") \o "})]">>),
        "rust")

\* The call record of a template carries the prefix it was given
CallTemplate(op, prefix) == [op |-> op, n |-> 0, line |-> "", prefix |-> prefix]

\* A template returns a new builder to the caller
Template(op, prefix, b) ==
    /\ Running
    /\ builder' = Some(b)
    /\ last' = [NoLast EXCEPT !.name = b.name, !.prefix = prefix, !.scope = b.scope]
    /\ snippet' = None /\ json' = None
    /\ call' = CallTemplate(op, prefix) /\ ret' = NoRet
    /\ FileUnchanged

Text == \E name \in GenNames, prefix \in Prefixes, t \in Texts :
    Template("text", prefix, text(name, prefix, t))
TodoComment == \E name \in GenNames, prefix \in Prefixes, c \in CommentNames, ct \in CommentTypes :
    Template("todo_comment", prefix, todo_comment(name, prefix, c, ct))
FnAlias == \E name \in GenNames, prefix \in Prefixes, f \in FnNames :
    Template("fn_alias", prefix, fn_alias(name, prefix, f))
RustText == \E name \in GenNames, prefix \in Prefixes, t \in Texts :
    Template("rust_text", prefix, rust_text(name, prefix, t))
RustTodoComment == \E name \in GenNames, prefix \in Prefixes, c \in CommentNames, ct \in CommentTypes :
    Template("rust_todo_comment", prefix, rust_todo_comment(name, prefix, c, ct))
RustFnAlias == \E name \in GenNames, prefix \in Prefixes, f \in FnNames :
    Template("rust_fn_alias", prefix, rust_fn_alias(name, prefix, f))
RustMacroAlias == \E name \in GenNames, prefix \in Prefixes, m \in MacroNames, cb \in CustomBraces :
    Template("rust_macro_alias", prefix, rust_macro_alias(name, prefix, m, cb))
RustAttr == \E name \in GenNames, prefix \in Prefixes, a \in AttrNames, args \in AttrArgs :
    Template("rust_attr", prefix, rust_attr(name, prefix, a, args))

InitTemplates == InitBuilder

\* The caller of a template chains setters on the builder and builds it
NextTemplates ==
    \/ Text \/ TodoComment \/ FnAlias
    \/ RustText \/ RustTodoComment \/ RustFnAlias \/ RustMacroAlias \/ RustAttr
    \/ SetPrefix \/ SetBody \/ SetScope \/ AddLine
    \/ Validate \/ Build

SpecTemplates == InitTemplates /\ [][NextTemplates]_vars

-----------------------------------------------------------------------------
(* Properties of the builder and of one Snippet, under SpecBuilder *)

Valid(b) == b.name # "" /\ b.prefix # "" /\ b.body # <<>>

\* C1: whenever build() is called on a builder whose name, prefix and body are
\* all non-empty it returns Ok, and the Snippet's name, prefix, description,
\* scope, is_file_template and priority are the last values handed to their
\* setters (or the defaults) and its body is the builder's body.
C1_BuildKeepsLastValues ==
    [][(call'.op = "build" /\ Valid(B)) =>
            /\ ret' = Ok
            /\ snippet' = Some([name |-> last.name, prefix |-> last.prefix,
                                body |-> B.body,
                                description |-> last.description,
                                scope |-> last.scope,
                                is_file_template |-> last.is_file_template,
                                priority |-> last.priority])]_vars

C1_Witness ==
    /\ call.op = "build" /\ ret = Ok
    /\ snippet[1].name = "snippet_7_zbcdef" /\ snippet[1].prefix = "p2"
    /\ snippet[1].body = <<"b", "a">>
    /\ snippet[1].description = Some("d2") /\ snippet[1].scope = Some("rust")
    /\ snippet[1].is_file_template = Some(FALSE)
    /\ snippet[1].priority = Some(1)

\* C2: validate() and build() return the first failure in the order name,
\* prefix, body: NameIsRequired for an empty name whatever the prefix and
\* body, PrefixIsRequired for an empty prefix whatever the body, BodyIsEmpty
\* for a body without lines, and Ok in every other builder state.
C2_FirstFailureOnly ==
    [][call'.op \in {"validate", "build"} =>
            ret' = IF B.name = "" THEN Err("NameIsRequired")
                   ELSE IF B.prefix = "" THEN Err("PrefixIsRequired")
                   ELSE IF Len(B.body) = 0 THEN Err("BodyIsEmpty")
                   ELSE Ok]_vars

C2_Witness ==
    /\ call.op = "validate" /\ builder # None
    /\ B.name = "" /\ B.prefix = "" /\ B.body = <<>>
    /\ ret = Err("NameIsRequired")

\* C4: set_line(n, v) and map_line(n, f) return IndexOutOfBounds(n) for every
\* n >= len(body); for n < len(body) they return the builder with the same
\* body length, every line but line n unchanged, and every other field
\* unchanged (set_line leaving v at line n).
C4_LineIndexed ==
    [][call'.op \in {"set_line", "map_line"} =>
            IF call'.n >= Len(B.body)
            THEN ret' = IndexOutOfBounds(call'.n)
            ELSE /\ ret' = Ok /\ builder' # None
                 /\ Len(builder'[1].body) = Len(B.body)
                 /\ \A j \in 1..Len(B.body) :
                        j # call'.n + 1 => builder'[1].body[j] = B.body[j]
                 /\ [builder'[1] EXCEPT !.body = B.body] = B
                 /\ call'.op = "set_line" =>
                        builder'[1].body[call'.n + 1] = call'.line]_vars

C4_Witness ==
    /\ call.op = "set_line" /\ ret = Ok /\ call.n = 1
    /\ builder # None /\ Len(B.body) = 2
    /\ B.body[2] = call.line /\ B.body[1] # call.line

\* C6: the value object Snippet::to_json() produces has the properties prefix
\* and body, one property for each optional field that is present, and no
\* other: an absent optional field has no property, and the name is not a
\* property.
C6_PropertySet ==
    (call.op = "Snippet::to_json" /\ ret = Ok) =>
        LET s == snippet[1]
            named == {"prefix", "body"}
                        \cup (IF s.description # None THEN {"description"} ELSE {})
                        \cup (IF s.scope # None THEN {"scope"} ELSE {})
                        \cup (IF s.priority # None THEN {"priority"} ELSE {})
            others == DOMAIN json[1] \ named
        IN  /\ named \subseteq DOMAIN json[1]
            /\ {"description", "scope", "priority"} \cap others = {}
            /\ {"name", "key"} \cap others = {}
            /\ Cardinality(others) = IF s.is_file_template # None THEN 1 ELSE 0

C6_Witness ==
    /\ call.op = "Snippet::to_json" /\ ret = Ok
    /\ snippet[1].description = None /\ snippet[1].scope = None
    /\ snippet[1].is_file_template = None /\ snippet[1].priority = None
    /\ DOMAIN json[1] = {"prefix", "body"}

\* C8: a Snippet whose is_file_template is present serializes it under the
\* property name "isFileTemplate".
C8_IsFileTemplateName ==
    (call.op = "Snippet::to_json" /\ ret = Ok /\ snippet[1].is_file_template # None) =>
        /\ "isFileTemplate" \in DOMAIN json[1]
        /\ json[1]["isFileTemplate"] = snippet[1].is_file_template[1]

-----------------------------------------------------------------------------
(* Properties of the SnippetsFile, under SpecFile *)

ValidSnippet(s) == s.name # "" /\ s.prefix # "" /\ Len(s.body) >= 1

C5_InsertOverwrites ==
    [][(call'.op = "add_snippet" /\ ret'.kind # "Panic") =>
            LET s == snippet'[1] IN
            /\ DOMAIN snippets' = DOMAIN snippets \cup {s.name}
            /\ snippets'[s.name] = s
            /\ \A k \in DOMAIN snippets \ {s.name} : snippets'[k] = snippets[k]
            /\ Cardinality(DOMAIN snippets') =
                  Cardinality(DOMAIN snippets)
                      + (IF s.name \in DOMAIN snippets THEN 0 ELSE 1)]_vars

\* two Snippets sharing a name were inserted: size 1, the second retained
C5_Witness ==
    /\ call.op = "add_snippet" /\ ret.kind # "Panic"
    /\ call.keys = {"snippet_7_aaaaaa"} /\ DOMAIN snippets = {"snippet_7_aaaaaa"}
    /\ snippets["snippet_7_aaaaaa"] = snippet[1]
    /\ snippet[1].description = Some("d1")

PresentAs(obj, name, o) == o # None => name \in DOMAIN obj /\ obj[name] = o[1]

\* C7: to_json() of a SnippetsFile yields one object with exactly one property
\* per entry, named by the entry's key, whose value has prefix equal to the
\* Snippet's prefix, body equal to its body lines in order, and every present
\* optional field with its value.
C7_DocumentShape ==
    (call.op = "to_json" /\ ret = Ok) =>
        /\ DOMAIN json[1] = DOMAIN snippets
        /\ \A k \in DOMAIN snippets :
              LET v == json[1][k]
                  s == snippets[k]
              IN  /\ {"prefix", "body"} \subseteq DOMAIN v
                  /\ v["prefix"] = s.prefix
                  /\ v["body"] = s.body
                  /\ PresentAs(v, "description", s.description)
                  /\ PresentAs(v, "scope", s.scope)
                  /\ PresentAs(v, "priority", s.priority)
                  /\ s.is_file_template # None =>
                        \E p \in DOMAIN v \ {"prefix", "body", "description",
                                              "scope", "priority"} :
                            v[p] = s.is_file_template[1]

C7_Witness ==
    /\ call.op = "to_json" /\ ret = Ok
    /\ DOMAIN snippets = {"snippet_7_zbcdef"} /\ DOMAIN json[1] = {"snippet_7_zbcdef"}
    /\ snippets["snippet_7_zbcdef"].description = Some("d1")
    /\ json[1]["snippet_7_zbcdef"]["description"] = "d1"
    /\ json[1]["snippet_7_zbcdef"]["body"] = <<"a">>

-----------------------------------------------------------------------------
(* Properties of write_to, under SpecWrite *)

ParentExists(path, ds) == parent(path) = None \/ parent(path)[1] \in ds

\* C9: a write_to(path) that returns Ok leaves every ancestor directory of
\* path existing and the file holding the serialization of the SnippetsFile
\* as it is at that call, whatever the file held before; add_snippet and
\* to_json leave the files as they are.
C9_FileHoldsLatest ==
    [][/\ (call'.op = "write_to" /\ ret' = Ok) =>
              /\ \A k \in 1..(Len(call'.path) - 1) : Prefix(call'.path, k) \in dirs'
              /\ call'.path \in DOMAIN files'
              /\ files'[call'.path] = Some(SerializeMap(snippets))
              /\ snippets' = snippets
       /\ call'.op \in {"add_snippet", "to_json"} =>
              files' = files /\ dirs' = dirs]_vars

\* the parent directories were missing and the file was written
C9_Witness ==
    /\ call.op = "write_to" /\ ret = Ok
    /\ call.path = <<"d", "e", "f">> /\ call.mkdir
    /\ {<<"d">>, <<"d", "e">>} \subseteq dirs
    /\ DOMAIN snippets = {"snippet_7_aaaaaa", "snippet_7_zbcdef"}
    /\ files[call.path] = Some(SerializeMap(snippets))

\* C10: write_to returns Ok, a filesystem error or a serialization error.  If
\* the parent directory could not be created the error is the filesystem's
\* and no file changed; a serialization error means the directory exists and
\* no file changed; a file changes only when both earlier stages succeeded.
C10_StagesInOrder ==
    [][call'.op = "write_to" =>
            LET made == ParentExists(call'.path, dirs') IN
            /\ ret' \in {Ok, FromIoError, FromJsonError}
            /\ ~made => ret' = FromIoError /\ files' = files
            /\ ret' = FromJsonError => made /\ files' = files
            /\ files' # files => made /\ ret' \in {Ok, FromIoError}
            /\ ret' = Ok => made /\ files'[call'.path] = Some(SerializeMap(snippets))]_vars

\* the encoder failed after the directories were created: no file
C10_Witness ==
    /\ call.op = "write_to" /\ ret = FromJsonError
    /\ call.path = <<"d", "e", "f">> /\ call.mkdir
    /\ <<"d", "e">> \in dirs
    /\ call.path \notin DOMAIN files

\* C11: to_json() and write_to(), whether they return Ok or an error, leave the
\* map of the SnippetsFile (its keys and every Snippet) as it was, and never
\* panic, so the SnippetsFile can be used again afterwards.
C11_SerializationReadsOnly ==
    [][call'.op \in {"to_json", "write_to"} =>
            /\ snippets' = snippets
            /\ ret'.kind \in {"Ok", "Err"}
            /\ Running']_vars

\* a failed write_to on a SnippetsFile with two entries, both still there
C11_Witness ==
    /\ call.op = "write_to" /\ ret = FromIoError
    /\ DOMAIN snippets = {"snippet_7_aaaaaa", "snippet_7_zbcdef"}
    /\ snippets["snippet_7_zbcdef"].is_file_template = Some(TRUE)

\* C12: SnippetsFile::new, add_snippet and add_snippets panic exactly when they
\* are given a builder that fails validation (empty name, empty prefix or empty
\* body), with the validation error as the panic's payload, and Snippet::new
\* panics exactly when its prefix or its body is empty; none of them ever
\* returns a validation error as a value.
C12_InvalidInputPanics ==
    /\ call.op \in {"SnippetsFile::new", "add_snippet", "add_snippets"} =>
            /\ ret.kind # "Err"
            /\ ret.kind = "Panic" <=> call.invalid
            /\ ret.kind = "Panic" =>
                    ret.err \in {"NameIsRequired", "PrefixIsRequired", "BodyIsEmpty"}
    /\ \A name \in GenNames, prefix \in Prefixes, body \in Bodies :
            Snippet_new(name, prefix, body).ret =
                IF prefix = "" THEN Panic("PrefixIsRequired")
                ELSE IF body = <<>> THEN Panic("BodyIsEmpty")
                ELSE Ok

\* add_snippets panicked on a builder without a prefix, after a SnippetsFile
\* had been filled
C12_Witness ==
    /\ call.op = "add_snippets" /\ call.invalid
    /\ ret = Panic("PrefixIsRequired")
    /\ DOMAIN snippets # {}

\* C13: build() panics if the name is empty, if the prefix is empty or if the
\* body is empty (the statement of the crate's documentation; build() returns
\* the error as a value instead, see C2_FirstFailureOnly).
C13_BuildPanics ==
    [][(call'.op = "build" /\ ~Valid(B)) => ret'.kind = "Panic"]_vars

\* The text gen_name() formats for a timestamp and a six-letter suffix
NameHasFormat(name) ==
    /\ \E t \in Timestamps : Len(name) = Len("snippet_") + Len(ToString(t)) + 1 + 6
    /\ \E t \in Timestamps, s \in {"aaaaaa", "zbcdef"} :
            name = "snippet_" \o ToString(t) \o "_" \o s

\* C14: a builder just created by new() has a name "snippet_<milliseconds>_<six
\* lowercase letters>", which is not empty, an empty prefix, an empty body and
\* no description, scope, is_file_template or priority; validating it fails
\* with PrefixIsRequired, never with NameIsRequired.
C14_FreshBuilder ==
    call.op = "new" =>
        /\ builder # None
        /\ NameHasFormat(B.name) /\ B.name # ""
        /\ B.prefix = "" /\ B.body = <<>>
        /\ B.description = None /\ B.scope = None
        /\ B.is_file_template = None /\ B.priority = None
        /\ validate(B) = Err("PrefixIsRequired")
        /\ build(B).ret = Err("PrefixIsRequired")

\* new() with the draws 25, 1, 2, 3, 4, 5 for the suffix
C14_Witness ==
    /\ call.op = "new" /\ builder # None
    /\ B.name = "snippet_7_zbcdef" /\ B.prefix = ""
    /\ validate(B) = Err("PrefixIsRequired")

C16_ValidationOnlyAtBuild ==
    [][/\ call'.op \in {"set_name", "set_prefix", "set_body", "map_body"} =>
            /\ ret' = NoRet /\ builder' # None
            /\ call'.op = "set_name" => builder'[1].name = last'.name
            /\ call'.op = "set_prefix" => builder'[1].prefix = last'.prefix
       /\ (builder # None /\ validate(B) = Ok) =>
            /\ build(set_name(B, "")).ret = Err("NameIsRequired")
            /\ build(set_prefix(B, "")).ret = Err("PrefixIsRequired")
            /\ build(set_body(B, <<>>)).ret = Err("BodyIsEmpty")
            /\ build(map_body(B, "clear")).ret = Err("BodyIsEmpty")
       /\ call'.op = "build" =>
            /\ ret' = validate(B)
            /\ ret' # Ok => snippet' = None]_vars

\* set_prefix("") was accepted on a builder that is valid but for its prefix
C16_Witness ==
    /\ call.op = "set_prefix" /\ ret = NoRet /\ builder # None
    /\ B.prefix = "" /\ last.prefix = "" /\ B.name # "" /\ B.body # <<>>
    /\ validate(B) = Err("PrefixIsRequired")

\* add_line called on each element of lines, in order
RECURSIVE add_each(_, _)
add_each(b, lines) ==
    IF lines = <<>> THEN b ELSE add_each(add_line(b, Head(lines)), Tail(lines))

\* body is base followed by lines: every line of base at its position, then
\* the elements of lines in their order
FollowedBy(body, base, lines) ==
    /\ Len(body) = Len(base) + Len(lines)
    /\ \A i \in 1..Len(base) : body[i] = base[i]
    /\ \A i \in 1..Len(lines) : body[Len(base) + i] = lines[i]

\* C17: add_line(l) makes the body the old body followed by l, and add_lines(ls)
\* the old body followed by the elements of ls in their order, every existing
\* line staying at its position; set_body(ls) makes the body exactly ls,
\* whatever it held before; add_lines(ls) gives the same builder as add_line
\* called on each element of ls in order; no other field changes.
C17_BodyEdits ==
    [][/\ call'.op \in {"add_line", "add_lines"} =>
            /\ builder' # None
            /\ call'.op = "add_line" => Len(call'.lines) = 1
            /\ FollowedBy(builder'[1].body, B.body, call'.lines)
            /\ builder'[1] = add_each(B, call'.lines)
            /\ builder'[1] = [B EXCEPT !.body = builder'[1].body]
       /\ call'.op = "set_body" =>
            /\ builder' # None
            /\ builder'[1].body = call'.lines
            /\ builder'[1] = [B EXCEPT !.body = call'.lines]
       /\ call'.op \in {"add_line", "add_lines", "set_body"} =>
            \A ls \in Bodies :
                /\ FollowedBy(add_lines(B, ls).body, B.body, ls)
                /\ add_lines(B, ls) = add_each(B, ls)
                /\ set_body(B, ls).body = ls]_vars

\* add_lines(<<"b">>) on a builder holding the line "a"
C17_Witness ==
    /\ call.op = "add_lines" /\ call.lines = <<"b">>
    /\ builder # None /\ B.body = <<"a", "b">>

\* C18: SnippetsFile::new(batch), from the empty map, and add_snippets(batch),
\* from the current map, end as add_snippet called on each element of the batch
\* in order ends: the same panic or none, and without a panic the same map, in
\* which every name of the batch maps to the last element of the batch that
\* carries it, a valid builder being inserted as the Snippet build() returns
\* for it, and every other entry is as it was.
C18_BatchIsFold ==
    [][call'.op \in {"SnippetsFile::new", "add_snippets"} =>
            /\ ret' = call'.folded.ret
            /\ ret'.kind # "Panic" =>
                    /\ snippets' = call'.folded.snippets
                    /\ \A k \in call'.names : Some(snippets'[k]) = call'.latest[k]
                    /\ LET before == IF call'.op = "add_snippets"
                                     THEN DOMAIN snippets ELSE {}
                       IN  /\ DOMAIN snippets' = before \cup call'.names
                           /\ \A k \in before \ call'.names :
                                   snippets'[k] = snippets[k]]_vars

\* add_snippets over two elements of the same name, on a map holding another
C18_Witness ==
    /\ call.op = "add_snippets" /\ ret = NoRet
    /\ call.n = 2 /\ call.names = {"snippet_7_zbcdef"}
    /\ DOMAIN snippets = {"snippet_7_aaaaaa", "snippet_7_zbcdef"}
    /\ snippets["snippet_7_zbcdef"].description = Some("d1")

\* add_snippet of a Snippet, as a function of the map
Added(map, s) == add_snippet(map, [tag |-> "snippet", v |-> s]).snippets

\* C19: from any map a SnippetsFile holds, inserting two Snippets of distinct
\* names gives the same map in either order, and inserting a Snippet twice
\* gives the same map as inserting it once (the Snippet add_snippet has just
\* inserted included); the order matters only between Snippets of the same
\* name, where the later one stays.
C19_OrderIrrelevant ==
    /\ \A s1, s2 \in FileSnippets :
            /\ s1.name # s2.name =>
                    Added(Added(snippets, s1), s2) = Added(Added(snippets, s2), s1)
            /\ Added(Added(snippets, s1), s1) = Added(snippets, s1)
            /\ s1.name = s2.name =>
                    /\ Added(Added(snippets, s1), s2) = Added(snippets, s2)
                    /\ s1 # s2 => Added(Added(snippets, s1), s2)
                                        # Added(Added(snippets, s2), s1)
    /\ (call.op = "add_snippet" /\ ret.kind # "Panic") =>
            /\ snippet # None
            /\ Added(snippets, snippet[1]) = snippets

\* a second Snippet was inserted under another name than the first
C19_Witness ==
    /\ call.op = "add_snippet" /\ ret = NoRet
    /\ call.keys = {"snippet_7_zbcdef"}
    /\ DOMAIN snippets = {"snippet_7_aaaaaa", "snippet_7_zbcdef"}

GenericTemplates == {"text", "todo_comment", "fn_alias"}
RustTemplates ==
    {"rust_text", "rust_todo_comment", "rust_fn_alias", "rust_macro_alias", "rust_attr"}

\* C20: text, todo_comment, fn_alias and the five rust_ templates return a
\* builder, not a Snippet, whose prefix is the prefix given, whose body has
\* exactly one line, whose name is the default gen_name() drew and whose
\* description, is_file_template and priority are absent; the scope is absent
\* after the three generic templates and "rust" after every rust_ template; for
\* a non-empty prefix the builder builds to Ok with that prefix, line and scope;
\* and set_prefix, set_body and set_scope applied afterwards replace the values
\* the template put there.
C20_Templates ==
    [][/\ call'.op \in GenericTemplates \cup RustTemplates =>
            /\ ret' = NoRet /\ builder' # None
            /\ builder'[1].prefix = call'.prefix
            /\ Len(builder'[1].body) = 1
            /\ NameHasFormat(builder'[1].name)
            /\ builder'[1].scope =
                    IF call'.op \in RustTemplates THEN Some("rust") ELSE None
            /\ builder'[1].description = None
            /\ builder'[1].is_file_template = None
            /\ builder'[1].priority = None
            /\ build(builder'[1]).ret =
                    IF call'.prefix # "" THEN Ok ELSE Err("PrefixIsRequired")
            /\ call'.prefix # "" =>
                    /\ build(builder'[1]).snippet[1].prefix = call'.prefix
                    /\ build(builder'[1]).snippet[1].body = builder'[1].body
                    /\ build(builder'[1]).snippet[1].scope = builder'[1].scope
       /\ call'.op = "set_prefix" =>
            builder'[1] = [B EXCEPT !.prefix = last'.prefix]
       /\ call'.op = "set_body" =>
            builder'[1] = [B EXCEPT !.body = call'.lines]
       /\ call'.op = "set_scope" =>
            builder'[1] = [B EXCEPT !.scope = last'.scope] /\ last'.scope # None]_vars

\* rust_attr("p1", "derive", vec!["Debug", "Clone"]) returned its builder
C20_Witness ==
    /\ call.op = "rust_attr" /\ call.prefix = "p1" /\ builder # None
    /\ B.body = <<"#[derive(${1:Debug|Clone})]">>
    /\ B.scope = Some("rust") /\ B.name = "snippet_7_aaaaaa"
    /\ build(B).ret = Ok

\* C21: after any sequence of SnippetsFile::new, add_snippet and add_snippets,
\* every entry of the map is stored under the name of the Snippet it holds, and
\* the Snippet add_snippet has just inserted is found under its own name.
C21_KeyIsName ==
    /\ \A k \in DOMAIN snippets : snippets[k].name = k
    /\ (call.op = "add_snippet" /\ ret.kind # "Panic") =>
            /\ snippet # None
            /\ snippet[1].name \in DOMAIN snippets
            /\ snippets[snippet[1].name] = snippet[1]

\* add_snippets over two elements of different names filled two entries
C21_Witness ==
    /\ call.op = "add_snippets" /\ ret = NoRet /\ call.n = 2
    /\ call.names = {"snippet_7_aaaaaa", "snippet_7_zbcdef"}
    /\ DOMAIN snippets = {"snippet_7_aaaaaa", "snippet_7_zbcdef"}
    /\ snippets["snippet_7_aaaaaa"].name = "snippet_7_aaaaaa"
    /\ snippets["snippet_7_zbcdef"].name = "snippet_7_zbcdef"

OptionalFields == {"description", "scope", "is_file_template", "priority"}

\* The document has a property holding v for the optional field f (for
\* is_file_template under whatever name the serializer gives it, see C8)
Emitted(f, doc, v) ==
    IF f = "is_file_template"
    THEN \E p \in DOMAIN doc \ {"prefix", "body", "description", "scope", "priority"} :
            doc[p] = v
    ELSE f \in DOMAIN doc /\ doc[f] = v

\* C22: no operation on a builder makes a present description, scope,
\* is_file_template or priority absent: the field stays present through every
\* later operation on that builder, holds the last value set (only its own
\* setter changes it), is present with that value in the Snippet build()
\* returns, and has a property with that value in the object to_json() gives.
C22_OptionalsStay ==
    [][\A f \in OptionalFields :
        /\ (builder # None /\ builder' # None /\ call'.op # "new" /\ B[f] # None) =>
                /\ builder'[1][f] # None
                /\ builder'[1][f] = last'[f]
                /\ call'.op # "set_" \o f => builder'[1][f] = B[f]
        /\ (call'.op = "build" /\ ret' = Ok) =>
                /\ snippet' # None
                /\ snippet'[1][f] = B[f]
        /\ (call'.op = "Snippet::to_json" /\ ret' = Ok /\ snippet[1][f] # None) =>
                /\ json' # None
                /\ Emitted(f, json'[1], snippet[1][f][1])]_vars

\* a body operation after the four optional setters left all four present
C22_Witness ==
    /\ call.op = "map_body" /\ builder # None
    /\ B.description = Some("d2") /\ B.scope = Some("rust")
    /\ B.is_file_template = Some(TRUE) /\ B.priority = Some(0)
    /\ B.body = <<"b">>

\* C23: add_snippets(batch) whose element at position k is the first builder
\* that fails validation panics with that builder's validation error; the map
\* then holds every entry it held before, except that each name carried by an
\* element before k maps to the last such element (inserted, or overwriting
\* the entry of that name), and nothing of the elements from k on: the
\* inserts made before the panic are not undone. Without an invalid builder
\* the call does not panic.
C23_NotAtomic ==
    [][call'.op = "add_snippets" =>
            /\ ret'.kind = "Panic" <=> call'.aborted # None
            /\ call'.aborted # None =>
                    LET a == call'.aborted[1]
                    IN  /\ ret' = Panic(a.err)
                        /\ a.keys = DOMAIN snippets
                        /\ DOMAIN snippets' = DOMAIN snippets \cup DOMAIN a.head
                        /\ \A k \in DOMAIN a.head : Some(snippets'[k]) = a.head[k]
                        /\ \A k \in DOMAIN snippets \ DOMAIN a.head :
                                snippets'[k] = snippets[k]]_vars

\* add_snippets panicked on its second element after inserting the first
\* under a name the map did not hold
C23_Witness ==
    /\ call.op = "add_snippets" /\ ret = Panic("BodyIsEmpty")
    /\ call.aborted # None /\ call.aborted[1].k = 2
    /\ call.aborted[1].keys = {"snippet_7_aaaaaa"}
    /\ DOMAIN call.aborted[1].head = {"snippet_7_zbcdef"}
    /\ DOMAIN snippets = {"snippet_7_aaaaaa", "snippet_7_zbcdef"}

====
